---- MODULE Spec2Model ----
(***************************************************************************)
(* Model of url_processor.py: the URLProcessor batch pipeline.             *)
(* Text is modelled as sequences of one-character strings, so that         *)
(* urlparse, strip, replace, split, lower and the regular expressions of   *)
(* the source are computed character by character.                         *)
(***************************************************************************)
EXTENDS Integers, Sequences, FiniteSets, TLC

VARIABLES
    backlog,      \* source_file: sequence of raw lines
    ledger,       \* processed_file: sequence of records
    outdir,       \* output_dir: set of documents [name, url]
    urls,         \* run(): the list loaded at line 319
    i,            \* run(): enumerate index of the for loop
    pc,           \* position of the run
    success,      \* run(): result of process_url
    outPath,      \* process_url(): output_path
    now,          \* datetime.now(), in seconds
    delay,        \* self.delay_between_requests
    ledger0,      \* number of ledger records present before the run
    fetched,      \* history: indices whose fetch has started
    sleeps,       \* history: indices after which asyncio.sleep ran
    failLog,      \* history: sequence of [idx, step, msg] of failed steps
    aborted,      \* history: the loop was left by break
    fieldKey,     \* process_with_gemini: key of the pattern being applied
    fieldText,    \* process_with_gemini: reply text after the field label
    fieldOut,     \* process_with_gemini: extracted_metadata[key], or Absent
    effects,      \* history: <<index, effect>> pairs completed by the run
    nameUrls,     \* create_markdown_file: the urls of the calls studied
    nameLog       \* create_markdown_file: history of [url, time, name]

vars == <<backlog, ledger, outdir, urls, i, pc, success, outPath, now, delay,
          ledger0, fetched, sleeps, failLog, aborted, effects,
          fieldKey, fieldText, fieldOut, nameUrls, nameLog>>

runVars == <<backlog, ledger, outdir, urls, i, pc, success, outPath, now,
             delay, ledger0, fetched, sleeps, failLog, aborted, effects>>
parseVars == <<fieldKey, fieldText, fieldOut>>
nameVars == <<nameUrls, nameLog>>

----------------------------------------------------------------------------
(* Bounds *)
MaxBacklog == 2       \* raw lines in the backlog file
MaxValueLen == 4      \* characters between the brackets of a list field
MaxItems == 12        \* items of the long list replies
MaxNameCalls == 3     \* calls of create_markdown_file in the naming study
MaxNameTime == 2      \* latest second of a call in the naming study

----------------------------------------------------------------------------
(* Characters and Python string methods *)

UpperChars == <<"A","B","C","D","E","F","G","H","I","J","K","L","M",
                "N","O","P","Q","R","S","T","U","V","W","X","Y","Z">>
LowerChars == <<"a","b","c","d","e","f","g","h","i","j","k","l","m",
                "n","o","p","q","r","s","t","u","v","w","x","y","z">>
DigitChars == <<"0","1","2","3","4","5","6","7","8","9">>

Range(s) == {s[k] : k \in DOMAIN s}

\* str.lower() on one character
LowerChar(c) ==
    IF c \in Range(UpperChars)
    THEN LowerChars[CHOOSE k \in DOMAIN UpperChars : UpperChars[k] = c]
    ELSE c

\* The operators below bind their text argument once, as v, and work on v.

\* str.lower()
Lower(s) ==
    LET On(v) == [k \in DOMAIN v |-> LowerChar(v[k])]
    IN  CHOOSE r \in {On(v) : v \in {s}} : TRUE

\* first index k >= from with s[k] in C, or Len(s)+1
IndexOf(s, C, from) ==
    LET On(v, f) ==
            IF \E k \in f..Len(v) : v[k] \in C
            THEN CHOOSE k \in f..Len(v) :
                    v[k] \in C /\ \A j \in f..(k-1) : v[j] \notin C
            ELSE Len(v) + 1
    IN  CHOOSE r \in {On(v, f) : v \in {s}, f \in {from}} : TRUE

\* str.strip(chars): drop leading and trailing characters of C
StripChars(s, C) ==
    LET On(v) ==
            IF \A k \in DOMAIN v : v[k] \in C
            THEN << >>
            ELSE SubSeq(v,
                    CHOOSE k \in DOMAIN v :
                        v[k] \notin C /\ \A j \in 1..(k-1) : v[j] \in C,
                    CHOOSE k \in DOMAIN v :
                        v[k] \notin C /\ \A j \in (k+1)..Len(v) : v[j] \in C)
    IN  CHOOSE r \in {On(v) : v \in {s}} : TRUE

WhiteSpace == {" "}

\* str.strip()
Strip(s) == StripChars(s, WhiteSpace)

\* s starts with sub at position k
MatchAt(s, sub, k) ==
    \E v \in {s}, w \in {sub}, n \in {k} :
        /\ n + Len(w) - 1 <= Len(v)
        /\ \A j \in 1..Len(w) : v[n + j - 1] = w[j]

\* sub in s
Contains(s, sub) ==
    \E v \in {s}, w \in {sub} : \E k \in 1..(Len(v) + 1) : MatchAt(v, w, k)

\* str.find(sub): the first index where sub occurs, or Len(s)+1
Find(s, sub) ==
    LET On(v, w) ==
            IF \E k \in 1..Len(v) : MatchAt(v, w, k)
            THEN CHOOSE k \in 1..Len(v) :
                    MatchAt(v, w, k) /\ \A j \in 1..(k-1) : ~MatchAt(v, w, j)
            ELSE Len(v) + 1
    IN  CHOOSE r \in {On(v, w) : v \in {s}, w \in {sub}} : TRUE

RECURSIVE Replace(_, _, _)
\* str.replace(old, new) for a non-empty old: every non-overlapping
\* occurrence, left to right
Replace(s, old, new) ==
    LET On(v, k) ==
            IF k > Len(v) THEN v
            ELSE SubSeq(v, 1, k - 1) \o new
                    \o Replace(SubSeq(v, k + Len(old), Len(v)), old, new)
    IN  CHOOSE r \in {On(v, Find(v, old)) : v \in {s}} : TRUE

RECURSIVE SplitAlsoOnSpace(_, _)
\* a split that takes white space for a separator as well
SplitAlsoOnSpace(s, sep) ==
    LET On(v, k) ==
            IF k > Len(v) THEN <<v>>
            ELSE <<SubSeq(v, 1, k - 1)>>
                    \o SplitAlsoOnSpace(SubSeq(v, k + 1, Len(v)), sep)
    IN  CHOOSE r \in {On(v, IndexOf(v, {sep} \cup WhiteSpace, 1)) : v \in {s}} :
            TRUE

RECURSIVE Split(_, _)
\* str.split(sep) for a one-character separator
Split(s, sep) ==
    LET On(v, k) ==
            IF k > Len(v) THEN <<v>>
            ELSE <<SubSeq(v, 1, k - 1)>> \o Split(SubSeq(v, k + 1, Len(v)), sep)
    IN  CHOOSE r \in {On(v, IndexOf(v, {sep}, 1)) : v \in {s}} : TRUE

\* the k-th element, in increasing order, of a set of indices
Nth(S, k) == CHOOSE x \in S : Cardinality({y \in S : y <= x}) = k

\* s[:n]
Prefix(s, n) ==
    CHOOSE r \in {SubSeq(v, 1, IF Len(v) < n THEN Len(v) ELSE n) : v \in {s}} :
        TRUE

RECURSIVE Repeat(_, _)
Repeat(s, n) == IF n = 0 THEN << >> ELSE s \o Repeat(s, n - 1)

----------------------------------------------------------------------------
(* urllib.parse.urlparse, as used at lines 80, 116 and 208 *)

SchemeChars == Range(UpperChars) \cup Range(LowerChars) \cup Range(DigitChars)
                    \cup {"+", "-", "."}
Letters == Range(UpperChars) \cup Range(LowerChars)

UsesParams == { << >>, <<"h","t","t","p">>, <<"h","t","t","p","s">> }

\* the scheme is split off when the text before the first ':' is a letter
\* followed by scheme characters
HasScheme(url) ==
    \E c \in {IndexOf(url, {":"}, 1)} :
        /\ c > 1 /\ c <= Len(url)
        /\ url[1] \in Letters
        /\ \A k \in 1..(c - 1) : url[k] \in SchemeChars

\* urlsplit cuts the url at these positions.
\* where the text after the scheme begins
AfterScheme(url) ==
    IF HasScheme(url) THEN IndexOf(url, {":"}, 1) + 1 ELSE 1

\* the text after the scheme begins with '//'
HasNetloc(url) == MatchAt(url, <<"/", "/">>, AfterScheme(url))

\* where the text after the netloc begins: the first of '/', '?', '#'
AfterNetloc(url) ==
    IF HasNetloc(url)
    THEN IndexOf(url, {"/", "?", "#"}, AfterScheme(url) + 2)
    ELSE AfterScheme(url)

\* the first '#' after the netloc
FragmentAt(url) == IndexOf(url, {"#"}, AfterNetloc(url))

\* the first '?' after the netloc and before the fragment
QueryAt(url) ==
    IndexOf(SubSeq(url, 1, FragmentAt(url) - 1), {"?"}, AfterNetloc(url))

SchemeOf(url) == Lower(SubSeq(url, 1, AfterScheme(url) - 2))

\* _splitparams: the first ';' of the last segment of the path
ParamsAt(url) ==
    LET On(u, d, q) ==
            LET slashes == {k \in d..(q - 1) : u[k] = "/"}
                lastSl  == IF slashes = {} THEN d
                           ELSE CHOOSE k \in slashes : \A j \in slashes : j <= k
            IN  IF SchemeOf(u) \in UsesParams
                THEN IndexOf(SubSeq(u, 1, q - 1), {";"}, lastSl)
                ELSE q
    IN  CHOOSE r \in {On(u, d, q) : u \in {url}, d \in {AfterNetloc(url)},
                                    q \in {QueryAt(url)}} : TRUE

UrlParse(url) ==
    LET On(u, n, d, h, q, sc) ==
            [scheme   |-> SchemeOf(u),
             netloc   |-> IF HasNetloc(u) THEN SubSeq(u, n + 2, d - 1) ELSE << >>,
             path     |-> SubSeq(u, d, sc - 1),
             params   |-> SubSeq(u, sc + 1, q - 1),
             query    |-> SubSeq(u, q + 1, h - 1),
             fragment |-> SubSeq(u, h + 1, Len(u))]
    IN  CHOOSE r \in
          {On(u, n, d, h, q, sc) :
              u \in {url}, n \in {AfterScheme(url)}, d \in {AfterNetloc(url)},
              h \in {FragmentAt(url)}, q \in {QueryAt(url)},
              sc \in {ParamsAt(url)}} : TRUE

----------------------------------------------------------------------------
(* create_markdown_file: the file name, lines 208-219 *)

PathChars == 100

Digit(n) == DigitChars[(n % 10) + 1]

\* datetime.now().strftime('%Y%m%d_%H%M%S') for a clock that counts the
\* seconds of one hour of one day: the date and hour fields are fixed
Stamp(t) ==
    <<"2","0","0","0","0","1","0","1","_","0","0">>
        \o <<Digit((t \div 60) \div 10), Digit(t \div 60),
             Digit((t % 60) \div 10), Digit(t % 60)>>

\* \w of the regular expression at line 219, and '-', '_', '.'
SafeChars == Range(UpperChars) \cup Range(LowerChars) \cup Range(DigitChars)
                \cup {"_", "-", "."}

\* re.sub(r'[^\w\-_\.]', '_', filename)
Sanitize(s) ==
    LET On(v) == [k \in DOMAIN v |-> IF v[k] \in SafeChars THEN v[k] ELSE "_"]
    IN  CHOOSE r \in {On(v) : v \in {s}} : TRUE

MdSuffix == <<".", "m", "d">>

\* a file name derived from the whole text after the host, query included
FileNameWithQuery(url, t) ==
    LET On(parsed) ==
          LET domain == Replace(parsed.netloc, <<"w","w","w",".">>, << >>)
              whole  == IF parsed.query = << >> THEN parsed.path
                        ELSE parsed.path \o <<"?">> \o parsed.query
              Name(path) ==
                  IF path # << >>
                  THEN domain \o <<"_">> \o Prefix(path, PathChars) \o MdSuffix
                  ELSE domain \o <<"_">> \o Stamp(t) \o MdSuffix
          IN  CHOOSE r \in
                {Sanitize(Name(path)) : path \in
                    {Replace(StripChars(whole, {"/"}), <<"/">>, <<"_">>)}} :
                TRUE
    IN  CHOOSE r \in {On(parsed) : parsed \in {UrlParse(url)}} : TRUE

FileName(url, t) ==
    LET On(parsed) ==
          LET domain == Replace(parsed.netloc, <<"w","w","w",".">>, << >>)
              Name(path) ==
                  IF path # << >>
                  THEN domain \o <<"_">> \o Prefix(path, PathChars) \o MdSuffix
                  ELSE domain \o <<"_">> \o Stamp(t) \o MdSuffix
          IN  CHOOSE r \in
                {Sanitize(Name(path)) : path \in
                    {Replace(StripChars(parsed.path, {"/"}), <<"/">>, <<"_">>)}} :
                TRUE
    IN  CHOOSE r \in {On(parsed) : parsed \in {UrlParse(url)}} : TRUE

OutputDir == <<"o","u","t">>

\* self.output_dir / filename, line 246
OutputPath(url, t) == OutputDir \o <<"/">> \o FileName(url, t)

----------------------------------------------------------------------------
(* process_with_gemini: the list fields of the reply, lines 170-188 *)

ListKeys == {"technologies", "programming_languages", "tags", "key_concepts"}

Absent == "absent"

NoneToken == <<"n","o","n","e">>

\* re.search(r'<Label>:\s*\[([^\]]*)\]', ...) applied to the text that
\* follows the label: white space, '[', the group up to the first ']'
GroupStart(text) == IndexOf(text, Range(text) \ WhiteSpace, 1)
GroupEnd(text) == IndexOf(text, {"]"}, GroupStart(text) + 1)

FieldMatches(text) ==
    /\ GroupStart(text) <= Len(text)
    /\ text[GroupStart(text)] = "["
    /\ GroupEnd(text) <= Len(text)

\* match.group(1)
Group1(text) == SubSeq(text, GroupStart(text) + 1, GroupEnd(text) - 1)

RECURSIVE StripItems(_)
\* [item.strip() for item in items if item.strip()]
StripItems(items) ==
    LET On(v) ==
            IF v = << >> THEN << >>
            ELSE IF Strip(Head(v)) # << >>
                 THEN <<Strip(Head(v))>> \o StripItems(Tail(v))
                 ELSE StripItems(Tail(v))
    IN  CHOOSE r \in {On(v) : v \in {items}} : TRUE

\* a parser that knows the token only in lower case
ParseListValueCaseSensitive(group) ==
    LET On(value) ==
            IF value # << >> /\ value # NoneToken
            THEN StripItems(Split(value, ","))
            ELSE << >>
    IN  CHOOSE r \in {On(value) : value \in {Strip(group)}} : TRUE

\* lines 183-188 for a key of the four list fields
ParseListValue(group) ==
    LET On(value) ==
            IF value # << >> /\ Lower(value) # NoneToken
            THEN StripItems(Split(value, ","))
            ELSE << >>
    IN  CHOOSE r \in {On(value) : value \in {Strip(group)}} : TRUE

\* lines 181-188: the entry of extracted_metadata, absent without a match
ExtractListField(text) ==
    IF FieldMatches(text)
    THEN [st |-> "list", items |-> ParseListValue(Group1(text))]
    ELSE [st |-> Absent, items |-> << >>]

\* Inputs: every value of at most MaxValueLen characters, and the lists of
\* 0..MaxItems one-letter items
ValueChars == {",", " ", "n", "o", "e", "N"}

ValuesOfLen(n) == [1..n -> ValueChars]

ShortValues == UNION {ValuesOfLen(n) : n \in 0..MaxValueLen}

LongValues == {Repeat(<<"e", ",">>, k) : k \in 0..MaxItems}

\* what may follow the value in the reply
Tails == { << >>, <<"]">> }

FieldTexts ==
    {pre \o <<"[">> \o v \o t :
        pre \in {<< >>, <<" ">>}, v \in ShortValues \cup LongValues, t \in Tails}
        \cup { <<"n">> }

ParseInit ==
    /\ fieldKey \in ListKeys
    /\ fieldText \in FieldTexts
    /\ fieldOut = [st |-> "pending", items |-> << >>]

ParseIdle ==
    /\ fieldKey = "tags"
    /\ fieldText = << >>
    /\ fieldOut = [st |-> "idle", items |-> << >>]

\* one turn of the for loop at line 180
ParseField ==
    /\ fieldOut.st = "pending"
    /\ fieldOut' = ExtractListField(fieldText)
    /\ UNCHANGED <<fieldKey, fieldText>>

----------------------------------------------------------------------------
(* create_markdown_file called repeatedly: the file names it derives *)

HttpA == <<"h","t","t","p",":","/","/","a">>

LongPath == [k \in 1..(PathChars + 1) |-> "x"]

NameURLS ==
    { HttpA \o <<"/","p">>,
      HttpA \o <<"/","p","?","q">>,
      HttpA \o <<"/","p","?","r">>,
      HttpA,
      HttpA \o <<"?","q">>,
      HttpA \o <<"/">>,
      <<"h","t","t","p",":","/","/","w","w","w",".","a","/","p","/","r">>,
      HttpA \o <<"/">> \o LongPath,
      HttpA \o <<"/">> \o LongPath \o <<"?","q">> }

NameInit ==
    /\ nameUrls \in NameURLS \X NameURLS
    /\ nameLog = << >>

NameIdle ==
    /\ nameUrls = << >>
    /\ nameLog = << >>

LastNameTime == IF nameLog = << >> THEN 0 ELSE nameLog[Len(nameLog)].time

\* lines 208-219 at time t for one of the two urls
NameCall ==
    /\ Len(nameLog) < MaxNameCalls
    /\ \E k \in 1..2, t \in LastNameTime..MaxNameTime :
          nameLog' = Append(nameLog, [url  |-> nameUrls[k],
                                      time |-> t,
                                      name |-> FileName(nameUrls[k], t)])
    /\ UNCHANGED nameUrls

----------------------------------------------------------------------------
(* The run: URLProcessor.run, process_url and the files they update *)

DefaultDelay == 5

UrlAP  == HttpA \o <<"/","p">>            \* http://a/p
UrlAPQ == HttpA \o <<"/","p","?","q">>    \* http://a/p?q
UrlA   == HttpA                           \* http://a : empty path
UrlBP  == <<"h","t","t","p",":","/","/","b","/","p">>

\* lines of the backlog file: urls, a url between white space, a blank line
BacklogLines ==
    { UrlAP, UrlAPQ, UrlA, UrlBP, <<" ">> \o UrlAP \o <<" ">>, <<" ">> }

BacklogFiles == UNION {[1..n -> BacklogLines] : n \in 0..MaxBacklog}

\* str(e) of the exceptions the steps may raise
Messages == { <<"G","e","m","i","n","i">>, <<"q","u","o","t","a">> }

\* "gemini" in str(e).lower(), lines 312 and 345
IsGeminiError(m) == Contains(Lower(m), <<"g","e","m","i","n","i">>)

RECURSIVE ReadLines(_)
\* [line.strip() for line in f if line.strip()], line 259
ReadLines(lines) ==
    LET On(v) ==
            IF v = << >> THEN << >>
            ELSE IF Strip(Head(v)) # << >>
                 THEN <<Strip(Head(v))>> \o ReadLines(Tail(v))
                 ELSE ReadLines(Tail(v))
    IN  CHOOSE r \in {On(v) : v \in {lines}} : TRUE

\* read_urls_from_file
ReadUrls == ReadLines(backlog)

RECURSIVE RemainingDropFirst(_, _)
\* a rewrite that drops only the first line equal to the url
RemainingDropFirst(us, url) ==
    LET On(v) ==
            IF v = << >> THEN << >>
            ELSE IF Head(v) # url
                 THEN <<Head(v)>> \o RemainingDropFirst(Tail(v), url)
                 ELSE Tail(v)
    IN  CHOOSE r \in {On(v) : v \in {us}} : TRUE

RECURSIVE Remaining(_, _)
\* [u for u in urls if u != url], line 266
Remaining(us, url) ==
    LET On(v) ==
            IF v = << >> THEN << >>
            ELSE IF Head(v) # url
                 THEN <<Head(v)>> \o Remaining(Tail(v), url)
                 ELSE Remaining(Tail(v), url)
    IN  CHOOSE r \in {On(v) : v \in {us}} : TRUE

PriorRecord == [time |-> 0, url |-> UrlBP, path |-> OutputPath(UrlBP, 0)]

RunInit ==
    /\ backlog \in BacklogFiles
    /\ ledger \in { << >>, <<PriorRecord>> }
    /\ ledger0 = Len(ledger)
    /\ outdir = {}
    /\ urls = << >>
    /\ i = 0
    /\ pc = "start"
    /\ success = FALSE
    /\ outPath = << >>
    /\ now = 0
    /\ delay \in {0, DefaultDelay}
    /\ fetched = {}
    /\ sleeps = {}
    /\ failLog = << >>
    /\ aborted = FALSE
    /\ effects = {}

RunIdle ==
    /\ backlog = << >>
    /\ ledger = << >>
    /\ ledger0 = 0
    /\ outdir = {}
    /\ urls = << >>
    /\ i = 0
    /\ pc = "off"
    /\ success = FALSE
    /\ outPath = << >>
    /\ now = 0
    /\ delay = DefaultDelay
    /\ fetched = {}
    /\ sleeps = {}
    /\ failLog = << >>
    /\ aborted = FALSE
    /\ effects = {}

files == <<backlog, ledger, outdir>>
hist == <<fetched, sleeps, failLog, aborted, effects>>
others == <<fieldKey, fieldText, fieldOut, nameUrls, nameLog, ledger0, delay>>

\* lines 319-325
LoadBacklog ==
    /\ pc = "start"
    /\ urls' = ReadUrls
    /\ pc' = IF urls' = << >> THEN "done" ELSE "loop"
    /\ UNCHANGED <<files, i, success, outPath, now, hist, others>>

\* line 328: the for statement takes the next url, or the loop ends (351)
LoopNext ==
    /\ pc = "loop"
    /\ IF i < Len(urls)
       THEN i' = i + 1 /\ pc' = "fetch"
       ELSE i' = i /\ pc' = "done"
    /\ UNCHANGED <<files, urls, success, outPath, now, hist, others>>

\* The except clauses of process_url (310-315) and of run (344-349) for an
\* exception with message m raised by a step of process_url
Raise(step, m) ==
    /\ failLog' = Append(failLog, [idx |-> i, step |-> step, msg |-> m])
    /\ IF IsGeminiError(m)
       THEN \* re-raised at 314 and received at 344
            IF IsGeminiError(m)
            THEN pc' = "done" /\ aborted' = TRUE /\ UNCHANGED success
            ELSE pc' = "loop" /\ UNCHANGED <<aborted, success>>
       ELSE \* return False at 315
            pc' = "returned" /\ success' = FALSE /\ UNCHANGED aborted

\* lines 285-288 and fetch_url_content: the page, or None
FetchOk ==
    /\ pc = "fetch"
    /\ fetched' = fetched \cup {i}
    /\ pc' = "extract"
    /\ UNCHANGED <<files, urls, i, success, outPath, now, sleeps, failLog,
                   aborted, effects, others>>

FetchNone ==
    /\ pc = "fetch"
    /\ fetched' = fetched \cup {i}
    /\ failLog' = Append(failLog, [idx |-> i, step |-> "fetch", msg |-> << >>])
    /\ pc' = "returned"
    /\ success' = FALSE
    /\ UNCHANGED <<files, urls, i, outPath, now, sleeps, aborted, effects,
                   others>>

\* line 291
ExtractMetadata ==
    /\ pc = "extract"
    /\ \/ pc' = "convert" /\ UNCHANGED <<failLog, aborted, success>>
       \/ \E m \in Messages : Raise("extract", m)
    /\ UNCHANGED <<files, urls, i, outPath, now, fetched, sleeps, effects,
                   others>>

\* line 294
ConvertMarkdown ==
    /\ pc = "convert"
    /\ \/ pc' = "enrich" /\ UNCHANGED <<failLog, aborted, success>>
       \/ \E m \in Messages : Raise("convert", m)
    /\ UNCHANGED <<files, urls, i, outPath, now, fetched, sleeps, effects,
                   others>>

\* line 298 and process_with_gemini: a result, or the exception re-raised
\* at line 203
Enrich ==
    /\ pc = "enrich"
    /\ \/ pc' = "write" /\ UNCHANGED <<failLog, aborted, success>>
       \/ \E m \in Messages : Raise("enrich", m)
    /\ UNCHANGED <<files, urls, i, outPath, now, fetched, sleeps, effects,
                   others>>

\* a write that adds a document without replacing the one of the same name
PutFileKeepBoth(dir, name, url) ==
    dir \cup {[name |-> name, url |-> url]}

\* the output directory after open(output_path, 'w') and f.write: a file of
\* the same name is replaced
PutFile(dir, name, url) ==
    {d \in dir : d.name # name} \cup {[name |-> name, url |-> url]}

\* lines 301-302 and create_markdown_file: the document is written, or
\* open() raises and no file is touched
CreateMarkdownFile ==
    /\ pc = "write"
    /\ \/ /\ outdir' = PutFile(outdir, OutputPath(urls[i], now), urls[i])
          /\ outPath' = OutputPath(urls[i], now)
          /\ effects' = effects \cup {<<i, "doc">>}
          /\ pc' = "remove"
          /\ UNCHANGED <<failLog, aborted, success>>
       \/ /\ \E m \in Messages : Raise("write", m)
          /\ UNCHANGED <<outdir, outPath, effects>>
    /\ UNCHANGED <<backlog, ledger, urls, i, now, fetched, sleeps, others>>

\* a process_url that appends the ledger record with the backlog untouched
RemoveProcessedUrlSkipped ==
    /\ pc = "remove"
    /\ pc' = "append"
    /\ UNCHANGED <<files, urls, i, success, outPath, now, hist, others>>

\* line 305 and remove_processed_url: the file is read again and rewritten
\* without the url, or an open() raises and the file is as it was
RemoveProcessedUrl ==
    /\ pc = "remove"
    /\ \/ /\ backlog' = Remaining(ReadUrls, urls[i])
          /\ effects' = effects \cup {<<i, "removed">>}
          /\ pc' = "append"
          /\ UNCHANGED <<failLog, aborted, success>>
       \/ /\ \E m \in Messages : Raise("remove", m)
          /\ UNCHANGED <<backlog, effects>>
    /\ UNCHANGED <<ledger, outdir, urls, i, outPath, now, fetched, sleeps,
                   others>>

\* lines 306-308 and add_to_processed_file
AddToProcessedFile ==
    /\ pc = "append"
    /\ \/ /\ ledger' = Append(ledger, [time |-> now, url |-> urls[i],
                                       path |-> outPath])
          /\ effects' = effects \cup {<<i, "ledger">>}
          /\ success' = TRUE
          /\ pc' = "returned"
          /\ UNCHANGED <<failLog, aborted>>
       \/ /\ \E m \in Messages : Raise("append", m)
          /\ UNCHANGED <<ledger, effects>>
    /\ UNCHANGED <<backlog, outdir, urls, i, outPath, now, fetched, sleeps,
                   others>>

\* a test that also holds for the last url
MoreUrlsInclusive(idx, us) == idx <= Len(us)

\* the test of line 340
MoreUrls(idx, us) == idx < Len(us)

\* lines 334-342: process_url has returned
Returned ==
    /\ pc = "returned"
    /\ pc' = IF MoreUrls(i, urls) THEN "sleep" ELSE "loop"
    /\ UNCHANGED <<files, urls, i, success, outPath, now, hist, others>>

\* line 342: asyncio.sleep(self.delay_between_requests)
Sleep ==
    /\ pc = "sleep"
    /\ now' = now + delay
    /\ sleeps' = sleeps \cup {i}
    /\ pc' = "loop"
    /\ UNCHANGED <<files, urls, i, success, outPath, fetched, failLog,
                   aborted, effects, others>>

Running == pc \in {"start", "loop", "fetch", "extract", "convert", "enrich",
                   "write", "remove", "append", "returned", "sleep"}

\* lines 357-358: KeyboardInterrupt ends the run between two steps
Interrupt ==
    /\ Running
    /\ pc' = "interrupted"
    /\ UNCHANGED <<files, urls, i, success, outPath, now, hist, others>>

----------------------------------------------------------------------------
(* Specifications *)

Init == RunInit /\ ParseIdle /\ NameIdle

Next ==
    \/ LoadBacklog
    \/ LoopNext
    \/ FetchOk
    \/ FetchNone
    \/ ExtractMetadata
    \/ ConvertMarkdown
    \/ Enrich
    \/ CreateMarkdownFile
    \/ RemoveProcessedUrl
    \/ AddToProcessedFile
    \/ Returned
    \/ Sleep
    \/ Interrupt

Spec == Init /\ [][Next]_vars

ParseSpecInit == RunIdle /\ ParseInit /\ NameIdle

ParseNext == ParseField /\ UNCHANGED <<runVars, nameVars>>

ParseSpec == ParseSpecInit /\ [][ParseNext]_vars

NameSpecInit == RunIdle /\ ParseIdle /\ NameInit

NameNext == NameCall /\ UNCHANGED <<runVars, parseVars>>

NameSpec == NameSpecInit /\ [][NameNext]_vars

----------------------------------------------------------------------------
(* Properties of the run *)

NewRecords == SubSeq(ledger, ledger0 + 1, Len(ledger))

DocNames == {d.name : d \in outdir}

\* process_url has returned or raised for the url at index j
Ended(j) ==
    \/ j < i
    \/ j = i /\ pc \in {"returned", "sleep", "loop", "done"}

C2_EnrichFailureHalts ==
    (failLog # << >> /\ failLog[1].step = "enrich") =>
        LET k == failLog[1].idx
        IN  /\ fetched \subseteq 1..k
            /\ Cardinality(DocNames) = k - 1
            /\ Len(NewRecords) = k - 1
            /\ ReadUrls = SubSeq(urls, k, Len(urls))

\* C3 (as claimed): a failure of a step other than the enrichment call,
\* whose message the handlers do not take for an enrichment failure, does
\* not end the run and leaves the failed url in the backlog file.
C3_OtherFailureKeepsUrl ==
    \A k \in DOMAIN failLog :
        (failLog[k].step # "enrich" /\ ~IsGeminiError(failLog[k].msg)) =>
            /\ ~(aborted /\ k = Len(failLog))
            /\ urls[failLog[k].idx] \in Range(ReadUrls)

\* C4 (as claimed): in a run that is not interrupted, once the processing of
\* a url has ended, a url that is gone from the backlog has a ledger record.
C4_RemovedImpliesLedger ==
    pc # "interrupted" =>
        \A j \in DOMAIN urls :
            (Ended(j) /\ urls[j] \notin Range(ReadUrls)) =>
                \E k \in DOMAIN ledger : ledger[k].url = urls[j]

Has(j, e) == <<j, e>> \in effects

C9_DelayBetweenUrls ==
    /\ pc \in {"fetch", "extract", "convert", "enrich", "write", "remove",
               "append", "returned"} => sleeps = 1..(i - 1)
    /\ pc = "done" => sleeps = 1..(i - 1) /\ Len(urls) \notin sleeps
    /\ (pc = "done" /\ ~aborted) => i = Len(urls)
    /\ now = delay * Cardinality(sleeps)

\* two urls, the first skipped, the second processed: one delay
C9_Witness ==
    /\ pc = "done" /\ ~aborted
    /\ Len(urls) = 2 /\ Len(failLog) = 1 /\ failLog[1].idx = 1
    /\ Has(2, "ledger")
    /\ sleeps = {1}

\* after holds the elements of before that differ from u, in their order
IsRemovalOf(after, before, u) ==
    LET keep == {k \in DOMAIN before : before[k] # u}
    IN  /\ Len(after) = Cardinality(keep)
        /\ \A m \in DOMAIN after : after[m] = before[Nth(keep, m)]

----------------------------------------------------------------------------
(* Properties of the file name *)

\* the text of a url before its query string
BeforeQuery(u) == SubSeq(u, 1, IndexOf(u, {"?"}, 1) - 1)

\* the two urls have the same text up to the query string, and differ
DifferOnlyInQuery(u, v) ==
    /\ u # v
    /\ BeforeQuery(u) = BeforeQuery(v)
    /\ "#" \notin Range(u) \cup Range(v)

\* the path of the url has a character other than '/'
HasPathSegment(u) == Range(UrlParse(u).path) \ {"/"} # {}

\* C6 (as claimed): two calls for the same url with a non-empty path give
\* the same file name, and so do two calls for urls that differ only in
\* their query string.
C6_NameDeterministic ==
    \A a, b \in DOMAIN nameLog :
        /\ (nameLog[a].url = nameLog[b].url
                /\ UrlParse(nameLog[a].url).path # << >>)
            => nameLog[a].name = nameLog[b].name
        /\ DifferOnlyInQuery(nameLog[a].url, nameLog[b].url)
            => nameLog[a].name = nameLog[b].name

\* C6 (amended): for a url whose path has a character other than '/', every
\* call gives the same file name whatever the time, and calls for two such
\* urls that differ only in their query string give the same file name.
C6_NameDeterministicWithSegment ==
    \A a, b \in DOMAIN nameLog :
        /\ (nameLog[a].url = nameLog[b].url
                /\ HasPathSegment(nameLog[a].url))
            => nameLog[a].name = nameLog[b].name
        /\ (DifferOnlyInQuery(nameLog[a].url, nameLog[b].url)
                /\ HasPathSegment(nameLog[a].url))
            => nameLog[a].name = nameLog[b].name

\* the same url named at two times, and then its twin with a query string
C6_Witness ==
    /\ Len(nameLog) = 3
    /\ nameLog[1].url = nameLog[2].url
    /\ nameLog[1].time < nameLog[2].time
    /\ HasPathSegment(nameLog[1].url)
    /\ DifferOnlyInQuery(nameLog[1].url, nameLog[3].url)
    /\ nameLog[1].name = nameLog[3].name

----------------------------------------------------------------------------
(* Properties of the list fields *)

TagLimit == 10
ConceptLimit == 8

\* the text between the first '[' and the first ']' of the reply
Bracketed(text) ==
    SubSeq(text, IndexOf(text, {"["}, 1) + 1, IndexOf(text, {"]"}, 1) - 1)

IsNoneToken(v) == Lower(Strip(v)) = NoneToken

\* the comma-separated items of a value; a blank value has none
ItemsOf(v) == IF Strip(v) = << >> THEN << >> ELSE Split(v, ",")

NonBlank(item) == Range(item) \ WhiteSpace # {}

\* C7 (as claimed): the token "none" in any letter case gives the empty
\* list; any other value gives its comma-separated items, each trimmed, in
\* their order.
C7_ListIsItems ==
    fieldOut.st = "list" =>
        LET v == Bracketed(fieldText)
        IN  IF IsNoneToken(v)
            THEN fieldOut.items = << >>
            ELSE /\ Len(fieldOut.items) = Len(ItemsOf(v))
                 /\ \A k \in DOMAIN fieldOut.items :
                        fieldOut.items[k] = Strip(ItemsOf(v)[k])

\* C7 (amended): the token "none" in any letter case gives the empty list;
\* any other value gives its comma-separated items that are not blank, each
\* trimmed, in their order.
C7_ListIsNonBlankItems ==
    fieldOut.st = "list" =>
        LET v    == Bracketed(fieldText)
            keep == {k \in DOMAIN ItemsOf(v) : NonBlank(ItemsOf(v)[k])}
        IN  IF IsNoneToken(v)
            THEN fieldOut.items = << >>
            ELSE /\ Len(fieldOut.items) = Cardinality(keep)
                 /\ \A m \in DOMAIN fieldOut.items :
                        fieldOut.items[m] = Strip(ItemsOf(v)[Nth(keep, m)])

\* a value with an empty item between two items
C7_Witness ==
    /\ fieldOut.st = "list"
    /\ Bracketed(fieldText) = <<"n", ",", ",", "o">>
    /\ fieldOut.items = << <<"n">>, <<"o">> >>

CommaCount(v) == Cardinality({k \in DOMAIN v : v[k] = ","})

====
